---- MODULE Spec2Model ----
(***************************************************************************)
(* Reservation sniper: the durable job store (utils/reservation_store.py), *)
(* the acquisition engine (utils/reservation_sniper.py) and the operator   *)
(* cancel command (scripts/run_sniper.py), as a state machine.             *)
(*                                                                         *)
(* Every store call is one SQLite statement (plus commit) and is one       *)
(* atomic step; the steps of different worker processes interleave freely. *)
(***************************************************************************)
EXTENDS Integers, Sequences, FiniteSets, TLC

\* ---------------------------------------------------------------- bounds
MaxJobs == 1            \* jobs created in a run of the engine
MaxAttemptsBound == 2   \* largest max_attempts a job is created with
MaxTime == 1            \* the clock runs over 0..MaxTime
MaxBookings == 2        \* successful bookings the provider grants in a run

Workers == {"w1", "w2"}             \* worker processes (cron or direct)
Venues == {"fish-cheeks", "don-angie"}
Dates == {"2026-03-01", "2026-03-02"}
SlotTimes == {"7:00 PM"}            \* time of the slot a poll picks
ConfIds == {"RES999"}               \* confirmation ids the provider returns

NULL == 0               \* SQL NULL / Python None for ids
NoJob == 0

\* ------------------------------------------------------- timestamp texts
\* scheduled_at is a TEXT column holding the text create_job was given, and
\* SQLite compares it with the text of _now_est(), character by character.
\* All timestamps here share the date, so a text is <<separator, time>>:
\* the character between date and time and the zero-padded time of day.
SP == 32                \* ' ', as in --at "2026-02-22 09:00"
TEE == 84               \* 'T', as datetime.isoformat() writes it

IsoText(t) == <<TEE, t>>
SpaceText(t) == <<SP, t>>

\* datetime.now(_EST).replace(tzinfo=None).isoformat() at clock time t
NowText(t) == IsoText(t)

\* a text of another shape ('not-a-date')
BadText == <<110>>

\* datetime.fromisoformat(text) succeeds: a date, one separator character
\* and a time
ParsesAsTimestamp(text) == Len(text) = 2

\* the instant datetime.fromisoformat(text) denotes
Instant(text) == text[2]

\* text comparison a <= b of two timestamp texts, as SQLite does it
TextLE(a, b) == a[1] < b[1] \/ (a[1] = b[1] /\ a[2] <= b[2])

Statuses == {"pending", "active", "completed", "failed", "cancelled"}

VARIABLES
    jobs,           \* sniper_jobs table: sequence of rows, id = index
    reservations,   \* reservations table: sequence of rows, id = index
    now,            \* wall clock read by _now_est()
    pc,             \* per worker: the statement it is about to execute
    mode,           \* per worker: "cron" (run_scheduled_jobs), "direct" (run_job),
                    \* "claim" (a bare claim_next_sniper_job call), "none"
    job_id,         \* per worker: job_id of the running run_job / claim
    shutdown,       \* per worker: ReservationSniper._shutdown
    result,         \* per worker: result of the last _poll_once
    res_id,         \* per worker: res_id returned by add_reservation
    ret,            \* the value a call returned in the step just taken (and
                    \* the notification sent on the way out), NoRet otherwise:
                    \* outcome, time, reservation_id as returned; job the call
                    \* was about; reason and the attempts it names; call the
                    \* arguments of a create_job call; resolve_choices the
                    \* choices a poll called resolve_reservation_conflict with.
                    \* For a call of a pure helper: outcome the helper's name,
                    \* call its arguments, value what it returned
    op_pc,          \* operator cancel command: "idle" or "write"
    op_job          \* operator cancel command: args.cancel

vars == <<jobs, reservations, now, pc, mode, job_id, shutdown, result, res_id,
          ret, op_pc, op_job>>

workerVars == <<pc, mode, job_id, shutdown, result, res_id>>
opVars == <<op_pc, op_job>>

JobIds == 1..Len(jobs)

NoResult == [booked |-> FALSE, time |-> "", reservation_id |-> ""]
NoCall == <<>>
NoRet == [worker |-> "", outcome |-> "none", time |-> "", reservation_id |-> "",
          job |-> NoJob, notified |-> "none", reason |-> "", attempts |-> 0,
          call |-> NoCall, resolve_choices |-> <<>>, value |-> <<>>]

\* ------------------------------------------------------------ job store

\* add_sniper_job: INSERT with status 'pending', poll_count 0, no reservation
add_sniper_job(data) ==
    Append(jobs, [venue_slug |-> data.venue_slug,
                  date |-> data.date,
                  party_size |-> data.party_size,
                  time_window_minutes |-> data.time_window_minutes,
                  status |-> "pending",
                  poll_count |-> 0,
                  max_attempts |-> data.max_attempts,
                  scheduled_at |-> data.scheduled_at,
                  auto_resolve_conflicts |-> data.auto_resolve_conflicts,
                  reservation_id |-> NULL])

\* update_sniper_job(job_id, {'status': s}): unconditional UPDATE ... WHERE id = ?
update_status(id, s) ==
    IF id \in JobIds THEN [jobs EXCEPT ![id].status = s] ELSE jobs

\* update_sniper_job(job_id, {'status': 'completed', 'reservation_id': r})
update_completed(id, r) ==
    IF id \in JobIds
    THEN [jobs EXCEPT ![id].status = "completed", ![id].reservation_id = r]
    ELSE jobs

\* an increment that writes back a count read before the others wrote theirs
increment_from_stale_read(id) ==
    IF id \in JobIds THEN [jobs EXCEPT ![id].poll_count = 1] ELSE jobs

\* increment_poll_count: UPDATE ... SET poll_count = poll_count + 1 WHERE id = ?
increment_poll_count(id) ==
    IF id \in JobIds THEN [jobs EXCEPT ![id].poll_count = @ + 1] ELSE jobs

\* add_reservation: INSERT, returns lastrowid.  for_job is not a column: it
\* records the job whose booking the row stores
add_reservation(data) ==
    Append(reservations, [restaurant_name |-> data.restaurant_name,
                          date |-> data.date,
                          time |-> data.time,
                          confirmation_number |-> data.confirmation_number,
                          status |-> data.status,
                          for_job |-> data.for_job])

\* WHERE status = 'pending' AND scheduled_at <= now
PendingDue(t) ==
    {j \in JobIds : /\ jobs[j].status = "pending"
                    /\ TextLE(jobs[j].scheduled_at, NowText(t))}

\* ... ORDER BY scheduled_at LIMIT 1: the rows the SELECT may return
claim_select(t) ==
    {j \in PendingDue(t) :
        \A k \in PendingDue(t) : TextLE(jobs[j].scheduled_at, jobs[k].scheduled_at)}

\* the UPDATE without its status condition
claim_update_unconditional(id) == id \in JobIds

\* UPDATE ... SET status = 'active' WHERE id = ? AND status = 'pending';
\* the row it changes (rowcount is 1 iff the row is pending)
claim_update_hits(id) == id \in JobIds /\ jobs[id].status = "pending"

\* cancel_sibling_sniper_jobs(exclude, venue_slug, date): the other
\* non-terminal jobs of the same venue and date
Siblings(exclude, venue_slug, date) ==
    {k \in JobIds : /\ k # exclude
                    /\ jobs[k].venue_slug = venue_slug
                    /\ jobs[k].date = date
                    /\ jobs[k].status \in {"pending", "active"}}

cancel_sibling_sniper_jobs(exclude, venue_slug, date) ==
    [k \in JobIds |->
        IF k \in Siblings(exclude, venue_slug, date)
        THEN [jobs[k] EXCEPT !.status = "cancelled"]
        ELSE jobs[k]]

\* ------------------------------------------------------- worker helpers

\* The value a public entry point hands back to its caller.  run_job called
\* from run_scheduled_jobs returns into its while loop; called directly (or
\* a bare claim_next_sniper_job call) it returns to the caller and the
\* process ends.
Return(w, r) ==
    /\ ret' = [r EXCEPT !.worker = w]
    /\ pc' = [pc EXCEPT ![w] = IF mode[w] = "cron" THEN "claim_select" ELSE "idle"]
    /\ mode' = [mode EXCEPT ![w] = IF mode[w] = "cron" THEN "cron" ELSE "none"]
    /\ shutdown' = [shutdown EXCEPT ![w] = IF mode[w] = "cron" THEN @ ELSE FALSE]
    /\ job_id' = [job_id EXCEPT ![w] = NoJob]
    /\ result' = [result EXCEPT ![w] = NoResult]
    /\ res_id' = [res_id EXCEPT ![w] = NULL]

\* An exception raised inside run_job: nothing in run_job or in
\* run_scheduled_jobs catches it, so it leaves both and the process ends
\* with what it had committed.
Raise(w, r) ==
    /\ ret' = [r EXCEPT !.worker = w, !.outcome = "raised"]
    /\ pc' = [pc EXCEPT ![w] = "idle"]
    /\ mode' = [mode EXCEPT ![w] = "none"]
    /\ shutdown' = [shutdown EXCEPT ![w] = FALSE]
    /\ job_id' = [job_id EXCEPT ![w] = NoJob]
    /\ result' = [result EXCEPT ![w] = NoResult]
    /\ res_id' = [res_id EXCEPT ![w] = NULL]

\* a bare claim_next_sniper_job call returns job j (NoJob for None) to its
\* caller, which keeps what it got
ClaimReturn(w, j) ==
    /\ ret' = [NoRet EXCEPT !.worker = w, !.job = j,
                            !.outcome = IF j = NoJob THEN "claim_none" ELSE "claimed"]
    /\ pc' = [pc EXCEPT ![w] = IF j = NoJob THEN "got_none" ELSE "got_job"]
    /\ job_id' = [job_id EXCEPT ![w] = j]
    /\ UNCHANGED <<mode, shutdown, result, res_id>>

\* run_scheduled_jobs leaves its loop and returns; the process ends
CronExit(w) ==
    /\ ret' = [NoRet EXCEPT !.worker = w, !.outcome = "jobs_run",
                            !.reason = IF shutdown[w] THEN "shutdown" ELSE "no_job"]
    /\ pc' = [pc EXCEPT ![w] = "idle"]
    /\ mode' = [mode EXCEPT ![w] = "none"]
    /\ shutdown' = [shutdown EXCEPT ![w] = FALSE]
    /\ job_id' = [job_id EXCEPT ![w] = NoJob]
    /\ UNCHANGED <<result, res_id>>

\* a loop condition that ignores the flag
LoopIgnoresFlag(w) == TRUE

\* while not self._shutdown
LoopContinues(w) == ~shutdown[w]

\* an exhaustion test that lets one more poll through
ExhaustedOnePollLate(j) == jobs[j].poll_count > jobs[j].max_attempts

\* if job['poll_count'] >= job['max_attempts']
Exhausted(j) == jobs[j].poll_count >= jobs[j].max_attempts

\* successful bookings the provider has been driven to for job j: those
\* stored as reservation rows and those about to be stored
BookingsFor(j) ==
    Cardinality({r \in 1..Len(reservations) : reservations[r].for_job = j})
    + Cardinality({w \in Workers : pc[w] = "add_reservation" /\ job_id[w] = j})

TotalBookings ==
    Len(reservations) + Cardinality({w \in Workers : pc[w] = "add_reservation"})

\* ---------------------------------------------------------- environment

\* Settings and the defaults of create_job's signature
SNIPER_MAX_ATTEMPTS == 60
SNIPER_DEFAULT_TIME_WINDOW_MINUTES == 60
PartySizeDefault == 2       \* party_size: int = 2
PartySizeSettings == {2, 4} \* values Settings.DEFAULT_PARTY_SIZE is configured to

\* A create_job call: its arguments, NULL for an omitted number and <<>> for
\* an omitted scheduled_at or flag, and Settings.DEFAULT_PARTY_SIZE of the
\* process that makes it.
\* The calls of the engine runs: one venue and date, every max_attempts, drop
\* time (in ISO form) and auto-resolve flag
JobArgs ==
    [venue_slug : {"fish-cheeks"}, date : {"2026-03-01"},
     party_size : {PartySizeDefault},
     time_window_minutes : {SNIPER_DEFAULT_TIME_WINDOW_MINUTES},
     max_attempts : 1..MaxAttemptsBound,
     scheduled_at : {IsoText(t) : t \in 0..MaxTime},
     auto_resolve_conflicts : {<<TRUE>>, <<FALSE>>},
     DEFAULT_PARTY_SIZE : {PartySizeDefault}]

\* create_job: try datetime.fromisoformat(scheduled_at), else ValueError
ValidScheduledAt(text) == ParsesAsTimestamp(text)

\* create_job: the dict it hands to add_sniper_job, omitted arguments
\* replaced by Settings.SNIPER_DEFAULT_TIME_WINDOW_MINUTES,
\* Settings.SNIPER_MAX_ATTEMPTS, datetime.now().isoformat() and the defaults
\* of the signature (party_size 2, auto_resolve_conflicts True)
create_job_data(a) ==
    [venue_slug |-> a.venue_slug,
     date |-> a.date,
     party_size |-> IF a.party_size = NULL THEN PartySizeDefault ELSE a.party_size,
     time_window_minutes |-> IF a.time_window_minutes = NULL
                             THEN SNIPER_DEFAULT_TIME_WINDOW_MINUTES
                             ELSE a.time_window_minutes,
     max_attempts |-> IF a.max_attempts = NULL THEN SNIPER_MAX_ATTEMPTS
                                               ELSE a.max_attempts,
     scheduled_at |-> IF a.scheduled_at = <<>> THEN IsoText(now) ELSE a.scheduled_at,
     auto_resolve_conflicts |-> IF a.auto_resolve_conflicts = <<>>
                                THEN TRUE ELSE a.auto_resolve_conflicts[1]]

\* create_job -> add_sniper_job (the CLI or the conversational agent), with
\* a call from args, while the table holds fewer than n jobs
CreateJobFrom(args, n) ==
    /\ Len(jobs) < n
    /\ \E a \in args :
          IF ValidScheduledAt(create_job_data(a).scheduled_at)
          THEN /\ jobs' = add_sniper_job(create_job_data(a))
               /\ ret' = [NoRet EXCEPT !.outcome = "created", !.job = Len(jobs) + 1,
                                       !.call = a]
          ELSE /\ jobs' = jobs
               /\ ret' = [NoRet EXCEPT !.outcome = "validation_error", !.call = a]
    /\ UNCHANGED <<reservations, now, workerVars, opVars>>

\* time passes
Tick ==
    /\ now < MaxTime
    /\ now' = now + 1
    /\ ret' = NoRet
    /\ UNCHANGED <<jobs, reservations, workerVars, opVars>>

\* SIGINT/SIGTERM delivered to a live worker process: _handle_shutdown
HandleShutdown(w) ==
    /\ pc[w] # "idle"
    /\ ~shutdown[w]
    /\ shutdown' = [shutdown EXCEPT ![w] = TRUE]
    /\ ret' = NoRet
    /\ UNCHANGED <<jobs, reservations, now, pc, mode, job_id, result, res_id, opVars>>

\* the worker process dies (SIGKILL, power loss, uncaught exception): no
\* handler runs, the store keeps what was committed
Kill(w) ==
    /\ pc[w] # "idle"
    /\ pc' = [pc EXCEPT ![w] = "idle"]
    /\ mode' = [mode EXCEPT ![w] = "none"]
    /\ shutdown' = [shutdown EXCEPT ![w] = FALSE]
    /\ ret' = [NoRet EXCEPT !.worker = w, !.outcome = "killed", !.job = job_id[w]]
    /\ result' = [result EXCEPT ![w] = NoResult]
    /\ res_id' = [res_id EXCEPT ![w] = NULL]
    /\ job_id' = [job_id EXCEPT ![w] = NoJob]
    /\ UNCHANGED <<jobs, reservations, now, opVars>>

\* ------------------------------------------------- run_scheduled_jobs

\* cmd_cron: a new process, ReservationSniper() then run_scheduled_jobs()
StartCron(w) ==
    /\ pc[w] = "idle"
    /\ pc' = [pc EXCEPT ![w] = "claim_select"]
    /\ mode' = [mode EXCEPT ![w] = "cron"]
    /\ ret' = NoRet
    /\ UNCHANGED <<jobs, reservations, now, job_id, shutdown, result, res_id, opVars>>

\* a caller of the store's claim_next_sniper_job alone (the concurrency test
\* of the claim protocol)
StartClaim(w) ==
    /\ pc[w] = "idle"
    /\ pc' = [pc EXCEPT ![w] = "claim_select"]
    /\ mode' = [mode EXCEPT ![w] = "claim"]
    /\ ret' = NoRet
    /\ UNCHANGED <<jobs, reservations, now, job_id, shutdown, result, res_id, opVars>>

\* run_scheduled_jobs: while not self._shutdown, then the first statement of
\* claim_next_sniper_job: SELECT id ... LIMIT 1
ClaimSelect(w) ==
    /\ pc[w] = "claim_select"
    /\ IF mode[w] = "cron" /\ ~LoopContinues(w)
       THEN CronExit(w)
       ELSE \/ /\ claim_select(now) = {}
               /\ IF mode[w] = "claim" THEN ClaimReturn(w, NoJob) ELSE CronExit(w)
            \/ /\ \E j \in claim_select(now) : job_id' = [job_id EXCEPT ![w] = j]
               /\ pc' = [pc EXCEPT ![w] = "claim_update"]
               /\ ret' = NoRet
               /\ UNCHANGED <<mode, shutdown, result, res_id>>
    /\ UNCHANGED <<jobs, reservations, now, opVars>>

\* claim_next_sniper_job, second statement: the conditional UPDATE, then
\* the rowcount test and get_sniper_job
ClaimUpdate(w) ==
    /\ pc[w] = "claim_update"
    /\ IF claim_update_hits(job_id[w])
       THEN /\ jobs' = update_status(job_id[w], "active")
            /\ IF mode[w] = "claim"
               THEN ClaimReturn(w, job_id[w])
               ELSE /\ pc' = [pc EXCEPT ![w] = "run_job"]
                    /\ ret' = NoRet
                    /\ UNCHANGED <<mode, shutdown, result, res_id, job_id>>
       ELSE /\ jobs' = jobs
            /\ IF mode[w] = "claim" THEN ClaimReturn(w, NoJob) ELSE CronExit(w)
    /\ UNCHANGED <<reservations, now, opVars>>

\* ---------------------------------------------------------- the provider

\* What the reservation provider does during one poll: the answer of
\* get_availability (it raises, returns no slot, returns slots of which
\* pick_best_slot takes none, or a slot at time t is picked), the answer of
\* make_reservation, the answer of resolve_reservation_conflict, and the
\* confirmation id it hands out.  "-" marks a call that is not made.
ProviderBehaviours ==
    [avail : {"raise", "empty", "no_match"}, book : {"-"}, resolve : {"-"}, conf : {""}]
    \cup [avail : SlotTimes, book : {"raise", "fail"}, resolve : {"-"}, conf : {""}]
    \cup [avail : SlotTimes, book : {"success"}, resolve : {"-"}, conf : ConfIds]
    \cup [avail : SlotTimes, book : {"conflict"}, resolve : {"raise", "fail"}, conf : {""}]
    \cup [avail : SlotTimes, book : {"conflict"}, resolve : {"success"}, conf : ConfIds]

\* what one poll hands back and what it asked of the provider on the way:
\* the dict _poll_once returns (booked, time, reservation_id, error) and the
\* choices resolve_reservation_conflict was called with
PollReturn(booked, time, reservation_id, error, resolve_choices) ==
    [booked |-> booked, time |-> time, reservation_id |-> reservation_id,
     error |-> error, resolve_choices |-> resolve_choices]

\* the provider raises in one of the calls the poll makes of it
ProviderRaises(job, p) ==
    \/ p.avail = "raise"
    \/ p.avail \in SlotTimes /\ p.book = "raise"
    \/ /\ p.avail \in SlotTimes /\ p.book = "conflict"
       /\ job.auto_resolve_conflicts /\ p.resolve = "raise"

\* a resolution that asks the provider to keep the existing reservation
resolve_conflict_keeping(job, p) ==
    PollReturn(FALSE, "", "", "Conflict resolution failed", <<"keep_existing">>)

\* _resolve_conflict: one resolve_reservation_conflict call with
\* choice='continue_booking'; booked with the slot time and the id of the
\* resolution on success, an error otherwise (an exception is caught)
resolve_conflict(job, p) ==
    IF p.resolve = "success"
    THEN PollReturn(TRUE, p.avail, p.conf, "", <<"continue_booking">>)
    ELSE PollReturn(FALSE, "", "", "Conflict resolution failed", <<"continue_booking">>)

\* _poll_once(job) when the provider behaves as p
poll_once(job, p) ==
    IF p.avail = "raise" THEN PollReturn(FALSE, "", "", "Availability check failed", <<>>)
    ELSE IF p.avail = "empty" THEN PollReturn(FALSE, "", "", "No slots available", <<>>)
    ELSE IF p.avail = "no_match"
         THEN PollReturn(FALSE, "", "", "No matching slots in time window", <<>>)
    ELSE IF p.book = "raise" THEN PollReturn(FALSE, "", "", "Booking failed", <<>>)
    ELSE IF p.book = "success" THEN PollReturn(TRUE, p.avail, p.conf, "", <<>>)
    ELSE IF p.book = "conflict" /\ job.auto_resolve_conflicts
         THEN resolve_conflict(job, p)
    ELSE PollReturn(FALSE, "", "", "Booking unsuccessful", <<>>)

\* the part of the poll's result run_job goes on to use
Outcome(r) ==
    [booked |-> r.booked, time |-> r.time, reservation_id |-> r.reservation_id]

\* what a call of the injected notifier does: it returns (delivered or not)
\* or it fails with an exception
NotifierBehaviours == {"returns", "raises"}

\* ------------------------------------------------------------ run_job

\* cmd_create_and_run, or any caller of the public run_job(job_id): a new
\* process
StartRunJob(w, j) ==
    /\ pc[w] = "idle"
    /\ pc' = [pc EXCEPT ![w] = "run_job"]
    /\ mode' = [mode EXCEPT ![w] = "direct"]
    /\ job_id' = [job_id EXCEPT ![w] = j]
    /\ ret' = NoRet
    /\ UNCHANGED <<jobs, reservations, now, shutdown, result, res_id, opVars>>

\* return {'outcome': 'failed', 'reason': f'Job {job_id} not found'}
NotFoundReturn(w) ==
    [NoRet EXCEPT !.outcome = "failed", !.reason = "not_found", !.job = job_id[w]]

\* run_job without the not-found test
RunJobBeginUnchecked(w) ==
    /\ pc[w] = "run_job"
    /\ jobs' = update_status(job_id[w], "active")
    /\ pc' = [pc EXCEPT ![w] = "loop"]
    /\ ret' = NoRet
    /\ UNCHANGED <<mode, job_id, shutdown, result, res_id, reservations, now, opVars>>

\* job = get_sniper_job(job_id); not found: return failed.  Otherwise
\* update_sniper_job(job_id, {'status': 'active'})
RunJobBegin(w) ==
    /\ pc[w] = "run_job"
    /\ IF job_id[w] \in JobIds
       THEN /\ jobs' = update_status(job_id[w], "active")
            /\ pc' = [pc EXCEPT ![w] = "loop"]
            /\ ret' = NoRet
            /\ UNCHANGED <<mode, job_id, shutdown, result, res_id>>
       ELSE /\ jobs' = jobs
            /\ Return(w, NotFoundReturn(w))
    /\ UNCHANGED <<reservations, now, opVars>>

\* a shutdown return that also sends a failure notification
ShutdownReturnNotifying(w) ==
    [NoRet EXCEPT !.outcome = "shutdown", !.job = job_id[w], !.notified = "failure"]

\* return {'outcome': 'shutdown', ...}: no notifier call on this path
ShutdownReturn(w) == [NoRet EXCEPT !.outcome = "shutdown", !.job = job_id[w]]

\* the head of the loop: while not self._shutdown; job = get_sniper_job;
\* if poll_count >= max_attempts.  With the flag set the loop is left:
\* update_sniper_job(job_id, {'status': 'pending'}); return shutdown
Loop(w) ==
    /\ pc[w] = "loop"
    /\ IF LoopContinues(w)
       THEN /\ pc' = [pc EXCEPT ![w] = IF Exhausted(job_id[w]) THEN "mark_failed"
                                                               ELSE "poll"]
            /\ jobs' = jobs
            /\ ret' = NoRet
            /\ UNCHANGED <<mode, job_id, shutdown, result, res_id>>
       ELSE /\ jobs' = update_status(job_id[w], "pending")
            /\ Return(w, ShutdownReturn(w))
    /\ UNCHANGED <<reservations, now, opVars>>

\* reason = f"Max attempts ({job['max_attempts']}) reached"; notify_failure(job,
\* reason); return {'outcome': 'failed', 'reason': reason, ...}
FailedReturn(w) ==
    [NoRet EXCEPT !.outcome = "failed", !.job = job_id[w], !.notified = "failure",
                  !.reason = "max_attempts",
                  !.attempts = jobs[job_id[w]].max_attempts]

\* update_sniper_job(job_id, {'status': 'failed'}); notify_failure; return failed
MarkFailed(w) ==
    /\ pc[w] = "mark_failed"
    /\ jobs' = update_status(job_id[w], "failed")
    /\ \E n \in NotifierBehaviours :
          IF n = "returns" THEN Return(w, FailedReturn(w)) ELSE Raise(w, FailedReturn(w))
    /\ UNCHANGED <<reservations, now, opVars>>

\* a poll whose get_availability call is not inside a try: its exception
\* leaves run_job
PollUncaught(w) ==
    /\ pc[w] = "poll"
    /\ jobs' = increment_poll_count(job_id[w])
    /\ \E p \in ProviderBehaviours :
         LET r == poll_once(jobs[job_id[w]], p) IN
           /\ r.booked => TotalBookings < MaxBookings
           /\ IF p.avail = "raise"
              THEN Raise(w, [NoRet EXCEPT !.job = job_id[w]])
              ELSE /\ result' = [result EXCEPT ![w] = Outcome(r)]
                   /\ pc' = [pc EXCEPT ![w] = IF r.booked THEN "add_reservation"
                                                          ELSE "loop"]
                   /\ ret' = NoRet
                   /\ UNCHANGED <<mode, job_id, shutdown, res_id>>
    /\ UNCHANGED <<reservations, now, opVars>>

\* the calls one _poll_once makes of the provider, in order: get_availability;
\* make_reservation when a slot was picked; resolve_reservation_conflict from
\* _resolve_conflict when the booking reported a conflict and the job resolves
\* conflicts
provider_calls(job, p) ==
    IF p.avail \notin SlotTimes THEN <<"get_availability">>
    ELSE IF p.book = "conflict" /\ job.auto_resolve_conflicts
         THEN <<"get_availability", "make_reservation", "resolve_reservation_conflict">>
    ELSE <<"get_availability", "make_reservation">>

\* a loop that goes on polling after a poll that booked
PollOnAfterBooking(w) ==
    /\ pc[w] = "poll"
    /\ jobs' = increment_poll_count(job_id[w])
    /\ \E p \in ProviderBehaviours :
         LET r == poll_once(jobs[job_id[w]], p) IN
           /\ result' = [result EXCEPT ![w] = Outcome(r)]
           /\ pc' = [pc EXCEPT ![w] = "loop"]
           /\ ret' = [NoRet EXCEPT !.worker = w, !.job = job_id[w],
                                   !.resolve_choices = r.resolve_choices,
                                   !.call = provider_calls(jobs[job_id[w]], p)]
    /\ UNCHANGED <<reservations, now, mode, job_id, shutdown, res_id, opVars>>

\* increment_poll_count(job_id); result = self._poll_once(job); not booked:
\* time.sleep(poll_interval) and back to the head of the loop
Poll(w) ==
    /\ pc[w] = "poll"
    /\ jobs' = increment_poll_count(job_id[w])
    /\ \E p \in ProviderBehaviours :
         LET r == poll_once(jobs[job_id[w]], p) IN
           /\ r.booked => TotalBookings < MaxBookings
           /\ result' = [result EXCEPT ![w] = Outcome(r)]
           /\ pc' = [pc EXCEPT ![w] = IF r.booked THEN "add_reservation" ELSE "loop"]
           /\ ret' = [NoRet EXCEPT !.worker = w, !.job = job_id[w],
                                   !.resolve_choices = r.resolve_choices,
                                   !.call = provider_calls(jobs[job_id[w]], p)]
    /\ UNCHANGED <<reservations, now, mode, job_id, shutdown, res_id, opVars>>

\* the row run_job hands to add_reservation
ReservationData(w) ==
    [restaurant_name |-> jobs[job_id[w]].venue_slug,
     date |-> jobs[job_id[w]].date,
     time |-> result[w].time,
     confirmation_number |-> result[w].reservation_id,
     status |-> "confirmed",
     for_job |-> job_id[w]]

\* res_id = self._store.add_reservation({...})
AddReservation(w) ==
    /\ pc[w] = "add_reservation"
    /\ reservations' = add_reservation(ReservationData(w))
    /\ res_id' = [res_id EXCEPT ![w] = Len(reservations) + 1]
    /\ pc' = [pc EXCEPT ![w] = "mark_completed"]
    /\ ret' = NoRet
    /\ UNCHANGED <<jobs, now, mode, job_id, shutdown, result, opVars>>

\* update_sniper_job(job_id, {'status': 'completed', 'reservation_id': res_id})
MarkCompleted(w) ==
    /\ pc[w] = "mark_completed"
    /\ jobs' = update_completed(job_id[w], res_id[w])
    /\ pc' = [pc EXCEPT ![w] = "cancel_siblings"]
    /\ ret' = NoRet
    /\ UNCHANGED <<reservations, now, mode, job_id, shutdown, result, res_id, opVars>>

\* what run_job returns after a booking
BookedReturn(w) ==
    [NoRet EXCEPT !.outcome = "booked", !.time = result[w].time,
                  !.reservation_id = result[w].reservation_id, !.job = job_id[w],
                  !.notified = "success"]

\* the end of the booked branch without the call that cancels the siblings
ReturnWithoutCancelling(w) ==
    /\ pc[w] = "cancel_siblings"
    /\ jobs' = jobs
    /\ Return(w, BookedReturn(w))
    /\ UNCHANGED <<reservations, now, opVars>>

\* cancel_sibling_sniper_jobs(job_id, job['venue_slug'], job['date']); then
\* get_sniper_job, notify_success(job, result) and return booked
CancelSiblings(w) ==
    /\ pc[w] = "cancel_siblings"
    /\ jobs' = cancel_sibling_sniper_jobs(job_id[w], jobs[job_id[w]].venue_slug,
                                          jobs[job_id[w]].date)
    /\ \E n \in NotifierBehaviours :
          IF n = "returns" THEN Return(w, BookedReturn(w)) ELSE Raise(w, BookedReturn(w))
    /\ UNCHANGED <<reservations, now, opVars>>

\* ------------------------------------------------- operator cancel command

\* cmd_cancel: job = get_sniper_job(args.cancel); the not-found and the
\* already completed/failed cases print and exit
CancelRead(j) ==
    /\ op_pc = "idle"
    /\ j \in JobIds
    /\ jobs[j].status \notin {"completed", "failed"}
    /\ op_pc' = "write"
    /\ op_job' = j
    /\ ret' = NoRet
    /\ UNCHANGED <<jobs, reservations, now, workerVars>>

\* cmd_cancel: update_sniper_job(args.cancel, {'status': 'cancelled'})
CancelWrite ==
    /\ op_pc = "write"
    /\ jobs' = update_status(op_job, "cancelled")
    /\ op_pc' = "idle"
    /\ op_job' = NoJob
    /\ ret' = NoRet
    /\ UNCHANGED <<reservations, now, workerVars>>

\* ------------------------------------------------------- specification

Init ==
    /\ jobs = <<>>
    /\ reservations = <<>>
    /\ now = 0
    /\ pc = [w \in Workers |-> "idle"]
    /\ mode = [w \in Workers |-> "none"]
    /\ job_id = [w \in Workers |-> NoJob]
    /\ shutdown = [w \in Workers |-> FALSE]
    /\ result = [w \in Workers |-> NoResult]
    /\ res_id = [w \in Workers |-> NULL]
    /\ ret = NoRet
    /\ op_pc = "idle"
    /\ op_job = NoJob

WorkerStep(w) ==
    \/ ClaimSelect(w) \/ ClaimUpdate(w)
    \/ RunJobBegin(w) \/ Loop(w) \/ MarkFailed(w) \/ Poll(w)
    \/ AddReservation(w) \/ MarkCompleted(w) \/ CancelSiblings(w)

Next ==
    \/ CreateJobFrom(JobArgs, MaxJobs)
    \/ Tick
    \/ \E w \in Workers : StartCron(w)
    \/ \E w \in Workers, j \in 1..MaxJobs : StartRunJob(w, j)
    \/ \E w \in Workers : WorkerStep(w)
    \/ \E w \in Workers : HandleShutdown(w)
    \/ \E j \in 1..MaxJobs : CancelRead(j)
    \/ CancelWrite

Spec == Init /\ [][Next]_vars

\* --------------------------------------------------- properties of Spec

\* the steps of worker w: every statement moves its program counter
Stepped(w) == pc'[w] # pc[w]

\* reservation rows stored for job j
RowsFor(j) == {r \in 1..Len(reservations) : reservations[r].for_job = j}

\* C2: no double booking: for every job the provider is driven to at most
\* one successful booking and at most one Reservation row is stored.
C2_NoDoubleBooking ==
    \A j \in JobIds : BookingsFor(j) <= 1 /\ Cardinality(RowsFor(j)) <= 1

AllowedTransitions ==
    {<<"pending", "active">>, <<"active", "completed">>, <<"active", "failed">>,
     <<"active", "cancelled">>, <<"active", "pending">>}

\* C3: every change of a job's status is pending->active, active->completed,
\* active->failed, active->cancelled or active->pending, so a completed,
\* failed or cancelled job never changes status again.
C3_LifecycleTransitions ==
    [][\A j \in JobIds :
          jobs'[j].status # jobs[j].status
             => <<jobs[j].status, jobs'[j].status>> \in AllowedTransitions]_vars

\* C4: in every reachable state a job is completed exactly when its
\* reservation_id is set.
C4_CompletedIffReservation ==
    \A j \in JobIds : (jobs[j].status = "completed") <=> (jobs[j].reservation_id # NULL)

\* C5: a job's poll_count never decreases and never exceeds its max_attempts,
\* whatever workers run the job.
C5_PollCountBounded ==
    [][\A j \in JobIds : /\ jobs'[j].poll_count >= jobs[j].poll_count
                         /\ jobs'[j].poll_count <= jobs'[j].max_attempts]_vars

\* C7: a worker that evaluates the loop condition of run_job with its
\* shutdown flag set polls no more and books nothing, leaves poll_count as it
\* is, sets the job pending and returns outcome shutdown.
C7_ShutdownLeavesLoop ==
    [][\A w \in Workers :
          (pc[w] = "loop" /\ shutdown[w] /\ Stepped(w))
             => /\ jobs' = [jobs EXCEPT ![job_id[w]].status = "pending"]
                /\ reservations' = reservations
                /\ TotalBookings' = TotalBookings
                /\ pc'[w] \in {"idle", "claim_select"}
                /\ ret' = [NoRet EXCEPT !.worker = w, !.outcome = "shutdown",
                                        !.job = job_id[w]]]_vars

\* run_job has just returned shutdown for a job that was never polled
C7_Witness ==
    /\ ret.outcome = "shutdown"
    /\ jobs[ret.job].status = "pending"
    /\ jobs[ret.job].poll_count = 0

\* C8: a worker whose job is cancelled when it re-reads the job at the head
\* of its loop leaves the loop, attempts no booking and leaves the status
\* cancelled.
C8_CancelStopsLoop ==
    [][\A w \in Workers :
          (pc[w] = "loop" /\ jobs[job_id[w]].status = "cancelled" /\ Stepped(w))
             => /\ pc'[w] \in {"idle", "claim_select"}
                /\ jobs' = jobs]_vars

\* C32: the write of the cancel command never changes a job that is completed,
\* failed or cancelled at that moment, also when a worker made it so after
\* the command read the status; a pending or active job it sets cancelled.
C32_CancelRejectedWhenTerminal ==
    [][(op_pc = "write" /\ op_pc' = "idle")
          => IF jobs[op_job].status \in {"completed", "failed", "cancelled"}
             THEN jobs' = jobs
             ELSE jobs'[op_job].status = "cancelled"]_vars

\* the workers inside the poll loop of run_job for job j
InLoop(j) == {w \in Workers : job_id[w] = j /\ pc[w] \in {"loop", "poll", "mark_failed"} \cup
                                                        {"add_reservation", "mark_completed",
                                                         "cancel_siblings"}}

\* C35: with workers that run jobs through run_scheduled_jobs and one caller
\* that runs a job directly, at any moment at most one worker is inside the
\* run_job loop of a job.
C35_OneLoopPerJob ==
    Cardinality({w \in Workers : mode[w] = "direct"}) <= 1
       => \A j \in JobIds : Cardinality(InLoop(j)) <= 1

\* C10: after a poll that reports booked, run_job stores one Reservation row
\* with status confirmed, sets the job completed with reservation_id pointing
\* at that row, notifies success once and returns booked with the booked time
\* and the provider's confirmation id, without raising.
C10_BookedPath ==
    [][\A w \in Workers :
        LET j == job_id[w] IN
          /\ (pc[w] = "poll" /\ Stepped(w) /\ result'[w].booked)
                => pc'[w] = "add_reservation" /\ reservations' = reservations
          /\ (pc[w] = "add_reservation" /\ Stepped(w))
                => /\ pc'[w] = "mark_completed"
                   /\ Len(reservations') = Len(reservations) + 1
                   /\ SubSeq(reservations', 1, Len(reservations)) = reservations
                   /\ res_id'[w] = Len(reservations')
                   /\ reservations'[res_id'[w]] =
                         [restaurant_name |-> jobs[j].venue_slug,
                          date |-> jobs[j].date,
                          time |-> result[w].time,
                          confirmation_number |-> result[w].reservation_id,
                          status |-> "confirmed",
                          for_job |-> j]
          /\ (pc[w] = "mark_completed" /\ Stepped(w))
                => /\ pc'[w] = "cancel_siblings"
                   /\ reservations' = reservations
                   /\ jobs'[j].status = "completed"
                   /\ jobs'[j].reservation_id = res_id[w]
                   /\ reservations[res_id[w]].for_job = j
          /\ (pc[w] = "cancel_siblings" /\ Stepped(w))
                => /\ reservations' = reservations
                   /\ jobs'[j] = jobs[j]
                   /\ ret' = [NoRet EXCEPT !.worker = w, !.outcome = "booked",
                                           !.time = result[w].time,
                                           !.reservation_id = result[w].reservation_id,
                                           !.job = j, !.notified = "success"]]_vars

\* C12: run_job on a job id that does not exist returns failed with a
\* not-found reason and changes nothing: no job or reservation row is created
\* or modified, the provider is not asked and no notification is sent.
C12_NotFoundNoEffect ==
    [][\A w \in Workers :
          (pc[w] = "run_job" /\ job_id[w] \notin JobIds /\ Stepped(w))
             => /\ jobs' = jobs
                /\ reservations' = reservations
                /\ TotalBookings' = TotalBookings
                /\ pc'[w] = "idle"
                /\ ret' = [NoRet EXCEPT !.worker = w, !.outcome = "failed",
                                        !.reason = "not_found",
                                        !.job = job_id[w]]]_vars

\* run_job has just returned failed, not found, for an id the store lacks
C12_Witness ==
    /\ ret.outcome = "failed"
    /\ ret.reason = "not_found"
    /\ ret.notified = "none"
    /\ ret.job \notin JobIds

\* C13: an error the provider raises in get_availability, make_reservation
\* or resolve_reservation_conflict does not leave the poll: the poll returns
\* booked = false with an error text, no exception leaves run_job, the step
\* leaves the job's status as it is and the worker is back at the head of its
\* loop for the next poll.
C13_ProviderErrorsContained ==
    [][\A w \in Workers :
        LET j == job_id[w] IN
          (pc[w] = "poll" /\ Stepped(w))
             => /\ \A p \in ProviderBehaviours :
                      ProviderRaises(jobs[j], p)
                         => /\ ~poll_once(jobs[j], p).booked
                            /\ poll_once(jobs[j], p).error # ""
                /\ \E p \in ProviderBehaviours :
                      result'[w] = Outcome(poll_once(jobs[j], p))
                /\ ret'.outcome # "raised"
                /\ pc'[w] \in {"loop", "add_reservation"}
                /\ ~result'[w].booked
                      => /\ pc'[w] = "loop"
                         /\ jobs'[j].status = jobs[j].status
                         /\ reservations' = reservations]_vars

\* a worker is back at the head of its loop after a poll that did not book,
\* its job still active
C13_Witness ==
    \E w \in Workers :
        /\ pc[w] = "loop"
        /\ job_id[w] \in JobIds
        /\ jobs[job_id[w]].poll_count > 0
        /\ jobs[job_id[w]].status = "active"
        /\ ~result[w].booked

\* C14: a failure of the notifier never leaves run_job as an exception: the
\* step that calls notify_failure returns failed and the step that calls
\* notify_success returns booked, and the job's status is what that step
\* wrote (failed, and completed as the worker left it) whether or not the
\* notification was delivered.
C14_NotifierFailureContained ==
    [][\A w \in Workers :
          /\ (pc[w] = "mark_failed" /\ Stepped(w))
                => ret'.outcome = "failed" /\ jobs'[job_id[w]].status = "failed"
          /\ (pc[w] = "cancel_siblings" /\ Stepped(w))
                => /\ ret'.outcome = "booked"
                   /\ jobs'[job_id[w]].status = jobs[job_id[w]].status]_vars

\* C15: the notifier is called only at a terminal outcome: notify_failure in
\* the step that sets the job failed, notify_success by the worker that
\* stored the reservation and set the job completed, each as the last act of
\* the run_job invocation (so at most one per invocation); no other step,
\* hence no poll, no shutdown return and no not-found return, notifies.
C15_NotifyOnlyTerminal ==
    [][/\ ret'.notified = "failure"
            => \E w \in Workers :
                 /\ pc[w] = "mark_failed" /\ Stepped(w) /\ ret'.worker = w
                 /\ jobs'[job_id[w]].status = "failed"
                 /\ pc'[w] \in {"idle", "claim_select"}
       /\ ret'.notified = "success"
            => \E w \in Workers :
                 /\ pc[w] = "cancel_siblings" /\ Stepped(w) /\ ret'.worker = w
                 /\ res_id[w] \in 1..Len(reservations)
                 /\ reservations[res_id[w]].for_job = job_id[w]
                 /\ pc'[w] \in {"idle", "claim_select"}
       /\ ret'.notified \in {"none", "failure", "success"}
       /\ \A w \in Workers :
            (Stepped(w) /\ pc[w] \notin {"mark_failed", "cancel_siblings"})
               => ret'.notified = "none"
       /\ (ret'.outcome = "shutdown" \/ ret'.reason = "not_found")
            => ret'.notified = "none"]_vars

\* run_job has just sent the failure notification of a job it set failed
C15_Witness ==
    /\ ret.notified = "failure"
    /\ ret.outcome = "failed"
    /\ jobs[ret.job].status = "failed"

\* C16: when run_scheduled_jobs returns without a shutdown having been
\* requested, no pending job that is due remains in the store, also while
\* other workers claim concurrently.
C16_NoDueJobLeftBehind ==
    (ret.outcome = "jobs_run" /\ ret.reason # "shutdown")
        => PendingDue(now) = {}

\* --------------------------------------------- drop times in both forms

\* The create_job calls of the command line, whose --at takes the drop time
\* as "YYYY-MM-DD HH:MM" (stored as typed, with the space) as well as in the
\* ISO form with the T
DropArgs ==
    [venue_slug : {"fish-cheeks"}, date : {"2026-03-01"},
     party_size : {PartySizeDefault},
     time_window_minutes : {SNIPER_DEFAULT_TIME_WINDOW_MINUTES},
     max_attempts : {1},
     scheduled_at : {IsoText(t) : t \in 0..MaxTime} \cup {SpaceText(t) : t \in 0..MaxTime},
     auto_resolve_conflicts : {<<TRUE>>},
     DEFAULT_PARTY_SIZE : {PartySizeDefault}]

NextDrop ==
    \/ CreateJobFrom(DropArgs, MaxJobs)
    \/ Tick
    \/ \E w \in Workers : StartCron(w)
    \/ \E w \in Workers : WorkerStep(w)

SpecDrop == Init /\ [][NextDrop]_vars

\* C17: claim_next_sniper_job never hands out a job before the instant its
\* scheduled_at text denotes, whichever accepted form the text has.
C17_NeverBeforeDropTime ==
    [][\A w \in Workers :
          (pc[w] = "claim_update" /\ pc'[w] = "run_job")
             => Instant(jobs[job_id[w]].scheduled_at) <= now]_vars

\* C20: in one poll resolve_reservation_conflict is called, once and with
\* the choice that cancels the existing reservation and continues with the
\* new booking ('continue_booking'), exactly when make_reservation answered
\* with status conflict and the job's auto_resolve_conflicts is set; when the
\* resolution succeeds the poll is booked with the id the resolution
\* returned; with the flag unset no resolution is called and the poll is not
\* booked.
C20_ConflictResolution ==
    [][\A w \in Workers :
        LET job == jobs[job_id[w]] IN
          (pc[w] = "poll" /\ Stepped(w))
             => /\ \A p \in ProviderBehaviours :
                     LET r == poll_once(job, p)
                         conflict == p.avail \in SlotTimes /\ p.book = "conflict"
                     IN /\ r.resolve_choices =
                              IF conflict /\ job.auto_resolve_conflicts
                              THEN <<"continue_booking">> ELSE <<>>
                        /\ (r.resolve_choices # <<>> /\ p.resolve = "success")
                              => /\ r.booked
                                 /\ r.reservation_id = p.conf
                        /\ (conflict /\ ~job.auto_resolve_conflicts) => ~r.booked
                /\ \E p \in ProviderBehaviours :
                     /\ result'[w] = Outcome(poll_once(job, p))
                     /\ ret'.resolve_choices = poll_once(job, p).resolve_choices
                /\ ret'.resolve_choices # <<>> => job.auto_resolve_conflicts]_vars

\* a poll has just resolved a conflict and is booked with the resolution's id
C20_Witness ==
    /\ ret.resolve_choices = <<"continue_booking">>
    /\ \E w \in Workers :
          /\ ret.worker = w
          /\ pc[w] = "add_reservation"
          /\ result[w].booked
          /\ result[w].reservation_id \in ConfIds
          /\ jobs[job_id[w]].auto_resolve_conflicts

\* ------------------------------------------- worker crashes, with fairness

\* The cron schedule with workers that may die: jobs are created, time
\* passes, cron launches run_scheduled_jobs and processes are killed.  A live
\* process keeps executing and cron keeps launching; nothing obliges a kill,
\* a signal, an operator or a direct run_job call to happen, so a behaviour
\* of this specification is a fair behaviour of the program.
NextCrash ==
    \/ CreateJobFrom(JobArgs, MaxJobs)
    \/ Tick
    \/ \E w \in Workers : StartCron(w)
    \/ \E w \in Workers : WorkerStep(w)
    \/ \E w \in Workers : Kill(w)

Fairness ==
    \A w \in Workers : WF_vars(WorkerStep(w)) /\ WF_vars(StartCron(w))

SpecCrash == Init /\ [][NextCrash]_vars /\ Fairness

\* job j is active and the process that was running it has just died, no
\* other process being at work on it
Orphaned(j) ==
    /\ j \in JobIds
    /\ jobs[j].status = "active"
    /\ ret.outcome = "killed" /\ ret.job = j
    /\ \A w \in Workers : job_id[w] # j

\* C6: an active job whose worker stopped without finishing run_job is
\* eventually pending again, so that a later claim can return it.
C6_OrphanRecovered ==
    \A j \in 1..MaxJobs : Orphaned(j) ~> (j \in JobIds /\ jobs[j].status = "pending")

\* ------------------------------------------------ several jobs, siblings

MaxSiblingJobs == 3     \* jobs created in a run with sibling jobs

\* jobs for every venue and date, all due at once
SiblingArgs ==
    [venue_slug : Venues, date : Dates,
     party_size : {PartySizeDefault},
     time_window_minutes : {SNIPER_DEFAULT_TIME_WINDOW_MINUTES},
     max_attempts : {1}, scheduled_at : {IsoText(0)},
     auto_resolve_conflicts : {<<TRUE>>},
     DEFAULT_PARTY_SIZE : {PartySizeDefault}]

NextSiblings ==
    \/ CreateJobFrom(SiblingArgs, MaxSiblingJobs)
    \/ \E w \in Workers : StartCron(w)
    \/ \E w \in Workers : WorkerStep(w)

SpecSiblings == Init /\ [][NextSiblings]_vars

SameTarget(j, k) ==
    jobs[j].venue_slug = jobs[k].venue_slug /\ jobs[j].date = jobs[k].date

Runner == CHOOSE w \in Workers : TRUE

\* jobs are created and one process at a time runs run_job on them, called
\* directly or from run_scheduled_jobs: no second worker, no signal, no
\* operator
NextRun ==
    \/ CreateJobFrom(JobArgs, MaxJobs)
    \/ Tick
    \/ \E j \in 1..MaxJobs : StartRunJob(Runner, j)
    \/ StartCron(Runner)
    \/ WorkerStep(Runner)

SpecRun == Init /\ [][NextRun]_vars

\* the process is scheduled: a run_job or run_scheduled_jobs that can take a
\* step eventually takes it, each provider, store and notifier call returning
\* or raising
RunFairness == WF_vars(WorkerStep(Runner))

SpecRunFair == Init /\ [][NextRun]_vars /\ RunFairness

\* C36: every run_job that starts eventually returns booked, failed or
\* shutdown, and every run_scheduled_jobs that starts eventually returns.
C36_RunJobTerminates ==
    /\ (pc[Runner] = "run_job")
          ~> (ret.worker = Runner /\ ret.outcome \in {"booked", "failed", "shutdown"})
    /\ (mode[Runner] = "cron")
          ~> (ret.worker = Runner /\ ret.outcome = "jobs_run")

\* how often call c occurs in the sequence of calls cs
Times(c, cs) == Cardinality({i \in 1..Len(cs) : cs[i] = c})

\* the steps of the booked branch of run_job
AfterBooking == {"add_reservation", "mark_completed", "cancel_siblings"}

\* C33: within one run_job a poll starts only from the head of the loop, that
\* is after the previous poll has returned; a poll calls get_availability
\* first, make_reservation at most once and resolve_reservation_conflict at
\* most once and only after make_reservation; a poll that reports booked
\* takes the invocation into the booked branch, which makes no provider call
\* and never goes back to polling.
C33_SequentialPolls ==
    [][/\ (Stepped(Runner) /\ pc'[Runner] = "poll") => pc[Runner] = "loop"
       /\ (pc[Runner] = "poll" /\ Stepped(Runner))
             => /\ ret'.worker = Runner
                /\ ret'.call[1] = "get_availability"
                /\ Times("get_availability", ret'.call) = 1
                /\ Times("make_reservation", ret'.call) <= 1
                /\ Times("resolve_reservation_conflict", ret'.call) <= 1
                /\ Len(ret'.resolve_choices) = Times("resolve_reservation_conflict", ret'.call)
                /\ Times("resolve_reservation_conflict", ret'.call) = 1
                      => ret'.call[2] = "make_reservation"
                /\ pc'[Runner] = IF result'[Runner].booked THEN "add_reservation" ELSE "loop"
       /\ (pc[Runner] \in AfterBooking /\ Stepped(Runner))
             => /\ pc'[Runner] \in AfterBooking \cup {"idle", "claim_select"}
                /\ ret'.call = NoCall]_vars

\* a poll that booked through a conflict resolution, after an earlier poll of
\* the same invocation that did not book
C33_Witness ==
    /\ pc[Runner] = "add_reservation"
    /\ jobs[job_id[Runner]].poll_count = 2
    /\ ret.call = <<"get_availability", "make_reservation", "resolve_reservation_conflict">>

\* C11: a run_job whose polls never book and that is not shut down reaches
\* the exhaustion branch after exactly max_attempts polls (poll_count equals
\* max_attempts), and there sets the job failed, sends one failure
\* notification and returns failed with a reason naming max_attempts,
\* without raising.
C11_ExhaustionFails ==
    [][LET j == job_id[Runner] IN
         (pc[Runner] = "mark_failed" /\ Stepped(Runner))
            => /\ jobs[j].poll_count = jobs[j].max_attempts
               /\ jobs' = [jobs EXCEPT ![j].status = "failed"]
               /\ reservations' = reservations
               /\ ret' = [NoRet EXCEPT !.worker = Runner, !.outcome = "failed",
                                       !.job = j, !.notified = "failure",
                                       !.reason = "max_attempts",
                                       !.attempts = jobs[j].max_attempts]]_vars

\* ------------------------------------------- the claim protocol alone

ClaimCallers == {"c1", "c2", "c3"}  \* concurrent callers of claim_next_sniper_job

\* a row of sniper_jobs as some earlier run left it
JobRow(status, scheduled_at, poll_count) ==
    [venue_slug |-> "fish-cheeks", date |-> "2026-03-01",
     party_size |-> PartySizeDefault,
     time_window_minutes |-> SNIPER_DEFAULT_TIME_WINDOW_MINUTES, status |-> status,
     poll_count |-> poll_count, max_attempts |-> 1, scheduled_at |-> scheduled_at,
     auto_resolve_conflicts |-> TRUE, reservation_id |-> NULL]

\* rows that are pending and due at time t
DueRows(t) == {JobRow("pending", IsoText(s), 0) : s \in 0..t}

\* rows no claim may return at time t: not yet due, claimed, cancelled, failed
OtherRows(t) ==
    {JobRow("pending", IsoText(s), 0) : s \in (t + 1)..MaxTime}
    \cup {JobRow("active", IsoText(0), 0), JobRow("cancelled", IsoText(0), 0),
          JobRow("failed", IsoText(0), 1)}

\* a store holding exactly one pending due job
InitClaim ==
    /\ now \in 0..MaxTime
    /\ \E c \in DueRows(now) :
          \/ jobs = <<c>>
          \/ \E o \in OtherRows(now) : jobs = <<c, o>> \/ jobs = <<o, c>>
    /\ reservations = <<>>
    /\ pc = [w \in ClaimCallers |-> "idle"]
    /\ mode = [w \in ClaimCallers |-> "none"]
    /\ job_id = [w \in ClaimCallers |-> NoJob]
    /\ shutdown = [w \in ClaimCallers |-> FALSE]
    /\ result = [w \in ClaimCallers |-> NoResult]
    /\ res_id = [w \in ClaimCallers |-> NULL]
    /\ ret = NoRet
    /\ op_pc = "idle"
    /\ op_job = NoJob

NextClaim ==
    \/ \E w \in ClaimCallers : StartClaim(w)
    \/ \E w \in ClaimCallers : ClaimSelect(w)
    \/ \E w \in ClaimCallers : ClaimUpdate(w)

SpecClaim == InitClaim /\ [][NextClaim]_vars

\* C1: N callers race claim_next_sniper_job on a store with one pending due
\* job: no job is held by two callers, and once every caller has returned
\* exactly one of them holds the job (now active) and the others got none.
C1_ExactlyOneClaims ==
    /\ \A j \in JobIds :
          Cardinality({w \in ClaimCallers : pc[w] = "got_job" /\ job_id[w] = j}) <= 1
    /\ \A w \in ClaimCallers :
          pc[w] = "got_job" => /\ job_id[w] \in JobIds
                               /\ jobs[job_id[w]].status = "active"
                               /\ Instant(jobs[job_id[w]].scheduled_at) <= now
    /\ (\A w \in ClaimCallers : pc[w] \in {"got_job", "got_none"})
          => Cardinality({w \in ClaimCallers : pc[w] = "got_job"}) = 1

\* one caller holds the job while another, which selected the same job, is
\* about to run its UPDATE, and a third already got none
C1_Witness ==
    \E a, b, c \in ClaimCallers :
        /\ pc[a] = "got_job"
        /\ pc[b] = "claim_update" /\ job_id[b] = job_id[a]
        /\ pc[c] = "got_none"

\* ------------------------------------------- a single caller of the claim

SoleCaller == "c1"
MaxRows == 2    \* rows in the table of the single-caller runs

\* the rows a table may hold: any status an earlier run leaves, the drop
\* time in either accepted form
TableRows ==
    {JobRow(st, text, 0) :
        st \in {"pending", "active", "cancelled"},
        text \in {IsoText(t) : t \in 0..MaxTime} \cup {SpaceText(t) : t \in 0..MaxTime}}

\* any table of up to MaxRows rows, one process about to call the store
InitSole ==
    /\ now \in 0..MaxTime
    /\ \E n \in 0..MaxRows : jobs \in [1..n -> TableRows]
    /\ reservations = <<>>
    /\ pc = [w \in {SoleCaller} |-> "idle"]
    /\ mode = [w \in {SoleCaller} |-> "none"]
    /\ job_id = [w \in {SoleCaller} |-> NoJob]
    /\ shutdown = [w \in {SoleCaller} |-> FALSE]
    /\ result = [w \in {SoleCaller} |-> NoResult]
    /\ res_id = [w \in {SoleCaller} |-> NULL]
    /\ ret = NoRet
    /\ op_pc = "idle"
    /\ op_job = NoJob

NextSole ==
    \/ Tick
    \/ StartClaim(SoleCaller)
    \/ ClaimSelect(SoleCaller)
    \/ ClaimUpdate(SoleCaller)

SpecSole == InitSole /\ [][NextSole]_vars

\* the pending jobs whose drop time has come
DueAt(t) ==
    {j \in JobIds : jobs[j].status = "pending" /\ Instant(jobs[j].scheduled_at) <= t}

\* C18: a claim with no concurrent claimer returns none, changing nothing,
\* exactly when no job is pending and due; otherwise it returns a pending due
\* job with the earliest scheduled_at and sets that job active, changing
\* nothing else; it never returns an active job or one scheduled later than now.
C18_SoleClaim ==
    [][/\ ret'.outcome = "claim_none" => (DueAt(now) = {} /\ jobs' = jobs)
       /\ ret'.outcome = "claimed"
            => /\ ret'.job \in DueAt(now)
               /\ \A k \in DueAt(now) :
                     Instant(jobs[ret'.job].scheduled_at) <= Instant(jobs[k].scheduled_at)
               /\ jobs' = [jobs EXCEPT ![ret'.job].status = "active"]
               /\ reservations' = reservations]_vars

\* ------------------------------------------------- create_job on its own

MaxCreated == 2      \* jobs created in the create_job runs
OtherWindow == 30    \* a window a caller passes instead of the default

\* create_job calls with every optional argument given or omitted, a drop
\* time in each accepted form or one that does not parse, made by processes
\* configured with either DEFAULT_PARTY_SIZE
CreateArgs ==
    [venue_slug : {"fish-cheeks"}, date : {"2026-03-01"},
     party_size : {NULL, 4},
     time_window_minutes : {NULL, OtherWindow},
     max_attempts : {NULL, 1},
     scheduled_at : {<<>>, IsoText(0), SpaceText(1), BadText},
     auto_resolve_conflicts : {<<>>, <<FALSE>>},
     DEFAULT_PARTY_SIZE : PartySizeSettings]

NextCreate ==
    \/ CreateJobFrom(CreateArgs, MaxCreated)
    \/ Tick

SpecCreate == Init /\ [][NextCreate]_vars

\* C19: create_job raises a validation error, leaving the store as it was,
\* when the scheduled_at it was given does not parse; otherwise it appends
\* exactly one job with a fresh id, pending, poll_count 0, no reservation
\* link, and every omitted optional field at its configured default.
C19_CreateJob ==
    [][LET a == ret'.call
           id == ret'.job
       IN /\ ret'.outcome = "validation_error"
               => /\ a.scheduled_at # <<>>
                  /\ ~ParsesAsTimestamp(a.scheduled_at)
                  /\ jobs' = jobs
          /\ ret'.outcome = "created"
               => /\ a.scheduled_at = <<>> \/ ParsesAsTimestamp(a.scheduled_at)
                  /\ id = Len(jobs) + 1
                  /\ Len(jobs') = Len(jobs) + 1
                  /\ SubSeq(jobs', 1, Len(jobs)) = jobs
                  /\ jobs'[id].status = "pending"
                  /\ jobs'[id].poll_count = 0
                  /\ jobs'[id].reservation_id = NULL
                  /\ jobs'[id].time_window_minutes =
                        IF a.time_window_minutes = NULL
                        THEN SNIPER_DEFAULT_TIME_WINDOW_MINUTES ELSE a.time_window_minutes
                  /\ jobs'[id].max_attempts =
                        IF a.max_attempts = NULL THEN SNIPER_MAX_ATTEMPTS ELSE a.max_attempts
                  /\ jobs'[id].auto_resolve_conflicts =
                        IF a.auto_resolve_conflicts = <<>>
                        THEN TRUE ELSE a.auto_resolve_conflicts[1]
                  /\ jobs'[id].party_size =
                        IF a.party_size = NULL THEN a.DEFAULT_PARTY_SIZE
                                               ELSE a.party_size]_vars

\* ------------------------------------------------------ the slot matcher

MaxSlots == 3   \* slots in one availability answer
MaxPrefs == 2   \* preferred times of a job

\* A time-of-day text as written: hour and minute digits and the AM/PM
\* marker, "" where the text has none (as in "19:00")
TimeText(h, m, p) == [hour |-> h, minute |-> m, meridiem |-> p]

None == <<>>
Some(x) == <<x>>

\* parse_time: datetime.strptime with "%I:%M %p" / "%I:%M%p": the hour must
\* be 1..12, the minute 0..59 and the marker AM or PM; 12 AM is hour 0 and
\* 12 PM hour 12.  None when the text does not match
parse_time(text) ==
    IF text.hour \in 1..12 /\ text.minute \in 0..59 /\ text.meridiem \in {"AM", "PM"}
    THEN Some([hour |-> (text.hour % 12) + (IF text.meridiem = "PM" THEN 12 ELSE 0),
               minute |-> text.minute])
    ELSE None

\* a distance on the clock face, the shorter way round midnight
distance_around_midnight(t1, t2) ==
    LET d == (t1.hour * 60 + t1.minute) - (t2.hour * 60 + t2.minute)
        a == IF d < 0 THEN -d ELSE d
    IN IF a > 720 THEN 1440 - a ELSE a

\* _time_distance_minutes
time_distance_minutes(t1, t2) ==
    LET d == (t1.hour * 60 + t1.minute) - (t2.hour * 60 + t2.minute)
    IN IF d < 0 THEN -d ELSE d

\* parsed_prefs: [parse_time(t) for t in preferred_times], the None dropped
RECURSIVE parsed_prefs(_)
parsed_prefs(preferred_times) ==
    IF preferred_times = <<>> THEN <<>>
    ELSE LET t == parse_time(Head(preferred_times))
         IN (IF t = None THEN <<>> ELSE <<t[1]>>) \o parsed_prefs(Tail(preferred_times))

\* min(_time_distance_minutes(slot_time, p) for p in parsed_prefs)
min_dist(slot_time, prefs) ==
    LET ds == {time_distance_minutes(slot_time, prefs[i]) : i \in 1..Len(prefs)}
    IN CHOOSE d \in ds : \A e \in ds : d <= e

\* the loop that builds scored: (min_dist, slot) for every slot whose time
\* parses and lies within the window, in input order
RECURSIVE scored(_, _, _)
scored(slots, prefs, window_minutes) ==
    IF slots = <<>> THEN <<>>
    ELSE LET slot_time == parse_time(Head(slots).time)
             rest == scored(Tail(slots), prefs, window_minutes)
         IN IF slot_time = None THEN rest
            ELSE IF min_dist(slot_time[1], prefs) <= window_minutes
                 THEN <<[dist |-> min_dist(slot_time[1], prefs), slot |-> Head(slots)]>> \o rest
                 ELSE rest

\* a sort that puts an element before the earlier ones of equal distance
RECURSIVE sort_reversing_ties(_)
sort_reversing_ties(sc) ==
    IF sc = <<>> THEN <<>>
    ELSE LET x == sc[Len(sc)]
             done == sort_reversing_ties(SubSeq(sc, 1, Len(sc) - 1))
         IN SelectSeq(done, LAMBDA y : y.dist < x.dist) \o <<x>>
            \o SelectSeq(done, LAMBDA y : y.dist >= x.dist)

\* scored.sort(key=lambda x: x[0]): list.sort is stable, equal distances keep
\* their order
RECURSIVE sort_by_distance(_)
sort_by_distance(sc) ==
    IF sc = <<>> THEN <<>>
    ELSE LET x == sc[Len(sc)]
             done == sort_by_distance(SubSeq(sc, 1, Len(sc) - 1))
         IN SelectSeq(done, LAMBDA y : y.dist <= x.dist) \o <<x>>
            \o SelectSeq(done, LAMBDA y : y.dist > x.dist)

\* [slot for _, slot in scored]
slots_of(sc) == [i \in 1..Len(sc) |-> sc[i].slot]

\* a filter that hands back its input
filter_returns_all(slots, preferred_times, window_minutes) == slots

\* a filter without the fallback for preferred times that do not parse
filter_without_fallback(slots, preferred_times, window_minutes) ==
    IF parsed_prefs(preferred_times) = <<>> THEN <<>>
    ELSE slots_of(sort_by_distance(
             scored(slots, parsed_prefs(preferred_times), window_minutes)))

\* filter_slots_by_time
filter_slots_by_time(slots, preferred_times, window_minutes) ==
    IF slots = <<>> THEN <<>>
    ELSE IF preferred_times = <<>> THEN slots
    ELSE IF parsed_prefs(preferred_times) = <<>> THEN slots
    ELSE slots_of(sort_by_distance(
             scored(slots, parsed_prefs(preferred_times), window_minutes)))

\* the last loop of pick_best_slot: the first slot of strictly smallest
\* distance among those whose time parses, None when none parses
RECURSIVE closest_overall(_, _)
closest_overall(slots, prefs) ==
    IF slots = <<>> THEN None
    ELSE LET last == slots[Len(slots)]
             best == closest_overall(SubSeq(slots, 1, Len(slots) - 1), prefs)
             t == parse_time(last.time)
         IN IF t = None THEN best
            ELSE IF best = None THEN Some(last)
            ELSE IF min_dist(t[1], prefs) < min_dist(parse_time(best[1].time)[1], prefs)
                 THEN Some(last) ELSE best

\* a pick that takes the first slot listed
pick_first_slot(slots, preferred_times, window_minutes) ==
    IF slots = <<>> THEN None ELSE Some(slots[1])

\* a pick that returns nothing when the job has no preferred time
pick_none_without_prefs(slots, preferred_times, window_minutes) ==
    IF slots = <<>> \/ preferred_times = <<>> THEN None
    ELSE IF filter_slots_by_time(slots, preferred_times, window_minutes) # <<>>
         THEN Some(filter_slots_by_time(slots, preferred_times, window_minutes)[1])
    ELSE IF closest_overall(slots, parsed_prefs(preferred_times)) # None
         THEN closest_overall(slots, parsed_prefs(preferred_times))
    ELSE Some(slots[1])

\* a pick that gives up when no slot is within the window
pick_within_window_only(slots, preferred_times, window_minutes) ==
    IF slots = <<>> THEN None
    ELSE IF preferred_times = <<>> THEN Some(slots[1])
    ELSE IF filter_slots_by_time(slots, preferred_times, window_minutes) # <<>>
         THEN Some(filter_slots_by_time(slots, preferred_times, window_minutes)[1])
    ELSE None

\* pick_best_slot; its last line is "return best or slots[0]"
pick_best_slot(slots, preferred_times, window_minutes) ==
    IF slots = <<>> THEN None
    ELSE IF preferred_times = <<>> THEN Some(slots[1])
    ELSE IF filter_slots_by_time(slots, preferred_times, window_minutes) # <<>>
         THEN Some(filter_slots_by_time(slots, preferred_times, window_minutes)[1])
    ELSE IF parsed_prefs(preferred_times) = <<>> THEN Some(slots[1])
    ELSE IF closest_overall(slots, parsed_prefs(preferred_times)) # None
         THEN closest_overall(slots, parsed_prefs(preferred_times))
    ELSE Some(slots[1])

\* _poll_once between the answer of get_availability and the call of
\* make_reservation: the error it returns, or the slot it tries to book
poll_attempt(slots, preferred_times, window_minutes) ==
    IF slots = <<>> THEN [error |-> "No slots available", booking_on |-> None]
    ELSE IF pick_best_slot(slots, preferred_times, window_minutes) = None
         THEN [error |-> "No matching slots in time window", booking_on |-> None]
    ELSE [error |-> "", booking_on |-> pick_best_slot(slots, preferred_times, window_minutes)]

\* the texts of the runs: 6:00, 6:30, 7:30 and 9:00 PM and "19:00" as slot
\* times; 7:00 PM, 8:00 PM and "19:00" as preferred times
SlotTexts ==
    {TimeText(6, 0, "PM"), TimeText(6, 30, "PM"), TimeText(7, 30, "PM"),
     TimeText(9, 0, "PM"), TimeText(19, 0, "")}
PrefTexts == {TimeText(7, 0, "PM"), TimeText(8, 0, "PM"), TimeText(19, 0, "")}
Windows == {30, 60}

SeqsUpTo(S, n) == UNION {[1..k -> S] : k \in 0..n}

\* an availability answer, the preferred times and the window of a job
InitSlots ==
    /\ Init!1 /\ Init!2 /\ Init!3 /\ Init!4 /\ Init!5 /\ Init!6 /\ Init!7
    /\ Init!8 /\ Init!9 /\ Init!11 /\ Init!12
    /\ \E sl \in SeqsUpTo({[time |-> t] : t \in SlotTexts}, MaxSlots),
          pr \in SeqsUpTo(PrefTexts, MaxPrefs), wm \in Windows :
          ret = [NoRet EXCEPT !.call = [slots |-> sl, preferred_times |-> pr,
                                        window_minutes |-> wm]]

\* a helper is applied to the arguments drawn
Apply(name, v) ==
    /\ ret.outcome = "none"
    /\ ret' = [ret EXCEPT !.outcome = name, !.value = v]
    /\ UNCHANGED <<jobs, reservations, now, workerVars, opVars>>

FilterSlotsByTime ==
    Apply("filter_slots_by_time",
          filter_slots_by_time(ret.call.slots, ret.call.preferred_times,
                               ret.call.window_minutes))

PickBestSlot ==
    Apply("pick_best_slot",
          pick_best_slot(ret.call.slots, ret.call.preferred_times,
                         ret.call.window_minutes))

PollAttempt ==
    Apply("poll_attempt",
          poll_attempt(ret.call.slots, ret.call.preferred_times,
                       ret.call.window_minutes))

NextSlots == FilterSlotsByTime \/ PickBestSlot \/ PollAttempt

SpecSlots == InitSlots /\ [][NextSlots]_vars

\* the parts of a call the claims speak of
Parses(text) == parse_time(text) # None
SomePrefParses == \E i \in 1..Len(ret.call.preferred_times) :
                     Parses(ret.call.preferred_times[i])
\* distance of input slot i to the nearest preferred time that parses
Dist(i) ==
    LET ds == {time_distance_minutes(parse_time(ret.call.slots[i].time)[1],
                                     parse_time(ret.call.preferred_times[k])[1]) :
                 k \in {k \in 1..Len(ret.call.preferred_times) :
                           Parses(ret.call.preferred_times[k])}}
    IN CHOOSE d \in ds : \A e \in ds : d <= e
ParsedSlots == {i \in 1..Len(ret.call.slots) : Parses(ret.call.slots[i].time)}
InWindow == {i \in ParsedSlots : Dist(i) <= ret.call.window_minutes}

\* C21: with a preferred time that parses, filter_slots_by_time returns
\* exactly the input slots whose time parses and whose distance to the
\* nearest parsed preferred time is within the window, each once, by
\* non-decreasing distance and, at equal distance, in input order.
C21_FilterByTime ==
    (ret.outcome = "filter_slots_by_time" /\ SomePrefParses)
       => /\ Len(ret.value) = Cardinality(InWindow)
          /\ \E f \in [1..Len(ret.value) -> InWindow] :
                /\ \A k \in 1..Len(ret.value) : ret.value[k] = ret.call.slots[f[k]]
                /\ \A k, l \in 1..Len(ret.value) :
                      k < l => \/ Dist(f[k]) < Dist(f[l])
                               \/ Dist(f[k]) = Dist(f[l]) /\ f[k] < f[l]

\* the filter has dropped a slot and returned two slots of equal distance,
\* listed after a farther one, in their input order
C21_Witness ==
    /\ ret.outcome = "filter_slots_by_time"
    /\ ret.call.slots = <<[time |-> TimeText(6, 0, "PM")], [time |-> TimeText(7, 30, "PM")],
                          [time |-> TimeText(6, 30, "PM")]>>
    /\ ret.call.preferred_times = <<TimeText(7, 0, "PM")>>
    /\ ret.call.window_minutes = 30
    /\ ret.value = <<[time |-> TimeText(7, 30, "PM")], [time |-> TimeText(6, 30, "PM")]>>

\* C22: for a non-empty slot list and a preferred time that parses, when the
\* filter's result is non-empty pick_best_slot returns its first element,
\* which is the earliest-listed slot of minimum distance, and the poll makes
\* its booking attempt on that slot; with 7:00 PM preferred, window 60 and
\* slots 6:00, 7:30 and 9:00 PM that slot is 7:30 PM.
C22_PickIsFirstOfFilter ==
    LET c == ret.call
        filtered == filter_slots_by_time(c.slots, c.preferred_times, c.window_minutes)
        example == /\ c.slots = <<[time |-> TimeText(6, 0, "PM")],
                                  [time |-> TimeText(7, 30, "PM")],
                                  [time |-> TimeText(9, 0, "PM")]>>
                   /\ c.preferred_times = <<TimeText(7, 0, "PM")>>
                   /\ c.window_minutes = 60
    IN (ret.outcome \in {"pick_best_slot", "poll_attempt"}
          /\ c.slots # <<>> /\ SomePrefParses /\ filtered # <<>>)
         => LET best == IF ret.outcome = "pick_best_slot" THEN ret.value
                        ELSE ret.value.booking_on
            IN /\ best = Some(filtered[1])
               /\ \E i \in InWindow :
                     /\ best = Some(c.slots[i])
                     /\ \A k \in ParsedSlots : Dist(i) <= Dist(k)
                     /\ \A k \in ParsedSlots : k < i => Dist(i) < Dist(k)
               /\ ret.outcome = "poll_attempt" => ret.value.error = ""
               /\ example => best = Some([time |-> TimeText(7, 30, "PM")])

\* the poll of the example has made its booking attempt on 7:30 PM
C22_Witness ==
    /\ ret.outcome = "poll_attempt"
    /\ ret.call.slots = <<[time |-> TimeText(6, 0, "PM")], [time |-> TimeText(7, 30, "PM")],
                          [time |-> TimeText(9, 0, "PM")]>>
    /\ ret.call.preferred_times = <<TimeText(7, 0, "PM")>>
    /\ ret.call.window_minutes = 60
    /\ ret.value.booking_on = Some([time |-> TimeText(7, 30, "PM")])

\* C23: for a non-empty slot list and a preferred time that parses,
\* pick_best_slot returns null only when no slot's time parses; when no slot
\* is within the window it returns null if no slot's time parses and
\* otherwise the slot closest to a preferred time among those that parse,
\* whatever the window.
C23_ClosestOutsideWindow ==
    LET c == ret.call IN
    (ret.outcome = "pick_best_slot" /\ c.slots # <<>> /\ SomePrefParses)
       => /\ ret.value = None => ParsedSlots = {}
          /\ InWindow = {}
               => IF ParsedSlots = {} THEN ret.value = None
                  ELSE \E i \in ParsedSlots :
                          /\ ret.value = Some(c.slots[i])
                          /\ \A k \in ParsedSlots : Dist(i) <= Dist(k)

\* C25: with a preferred time that parses, pick_best_slot never returns a
\* slot whose time does not parse, and the poll never tries to book one:
\* when no slot of a non-empty answer parses, the poll returns the error
\* "No matching slots in time window" and attempts no booking.
C25_NeverPicksUnparseable ==
    LET c == ret.call IN
    /\ (ret.outcome = "pick_best_slot" /\ SomePrefParses /\ ret.value # None)
          => Parses(ret.value[1].time)
    /\ (ret.outcome = "poll_attempt" /\ SomePrefParses)
          => /\ ret.value.booking_on # None => Parses(ret.value.booking_on[1].time)
             /\ (c.slots # <<>> /\ ParsedSlots = {})
                   => /\ ret.value.error = "No matching slots in time window"
                      /\ ret.value.booking_on = None

\* C24 as stated: filter_slots_by_time never returns a slot whose time fails
\* to parse, for every slot list, preferred list (an empty one and one of
\* which nothing parses included) and window.
C24_NeverReturnsUnparseable ==
    ret.outcome = "filter_slots_by_time"
       => \A k \in 1..Len(ret.value) : Parses(ret.value[k].time)

\* C24 amended: when a preferred time parses, filter_slots_by_time returns no
\* slot whose time fails to parse; when the preferred list is empty or none
\* of it parses, every input slot is returned, the unparseable ones too.
C24_DropsUnparseableWhenScoring ==
    ret.outcome = "filter_slots_by_time"
       => IF SomePrefParses
          THEN \A k \in 1..Len(ret.value) : Parses(ret.value[k].time)
          ELSE \A i \in 1..Len(ret.call.slots) :
                  \E k \in 1..Len(ret.value) : ret.value[k] = ret.call.slots[i]

\* the filter has dropped the slot that does not parse and kept another
C24_Witness ==
    /\ ret.outcome = "filter_slots_by_time"
    /\ SomePrefParses
    /\ ParsedSlots # 1..Len(ret.call.slots)
    /\ ret.value # <<>>

\* C26: with an empty preferred list or one of which nothing parses,
\* filter_slots_by_time returns the input slots, all of them and in input
\* order.
C26_PermissiveFallback ==
    (ret.outcome = "filter_slots_by_time" /\ ~SomePrefParses)
       => ret.value = ret.call.slots

\* the filter was given preferred times none of which parses and slots of
\* which one does not parse, and has returned them all
C26_Witness ==
    /\ ret.outcome = "filter_slots_by_time"
    /\ ret.call.preferred_times # <<>>
    /\ ~SomePrefParses
    /\ Len(ret.call.slots) > 1
    /\ ParsedSlots # 1..Len(ret.call.slots)
    /\ ret.value = ret.call.slots

\* C27: pick_best_slot returns null for an empty slot list whatever the
\* preferred times, and for a non-empty slot list with an empty preferred
\* list it returns the first input slot as it is, whatever its time.
C27_PickEdgeCases ==
    ret.outcome = "pick_best_slot"
       => /\ ret.call.slots = <<>> => ret.value = None
          /\ (ret.call.slots # <<>> /\ ret.call.preferred_times = <<>>)
                => ret.value = Some(ret.call.slots[1])

\* with no preferred time the pick is the first slot although its time does
\* not parse and a later one does
C27_Witness ==
    /\ ret.outcome = "pick_best_slot"
    /\ ret.call.preferred_times = <<>>
    /\ Len(ret.call.slots) > 1
    /\ ~Parses(ret.call.slots[1].time)
    /\ Parses(ret.call.slots[2].time)
    /\ ret.value = Some(ret.call.slots[1])

\* ---------------------------------------------------- booking handles

MaxPartLen == 2   \* characters in a venue slug, date or time text
MaxIdLen == 9     \* characters in a config_id handed to parse_config_id

\* texts are sequences of characters; "a" stands for the characters other
\* than "|"
Chars == {"a", "|"}
CONFIG_ID_SEPARATOR == <<"|", "|", "|">>

\* the separator occurs in text at position i
SeparatorAt(text, i) ==
    /\ i + Len(CONFIG_ID_SEPARATOR) - 1 <= Len(text)
    /\ SubSeq(text, i, i + Len(CONFIG_ID_SEPARATOR) - 1) = CONFIG_ID_SEPARATOR

\* str.split(sep): the text is cut at the leftmost occurrence of the
\* separator and the rest is split in the same way
RECURSIVE split(_)
split(text) ==
    IF \E i \in 1..Len(text) : SeparatorAt(text, i)
    THEN LET i == CHOOSE i \in 1..Len(text) :
                     /\ SeparatorAt(text, i)
                     /\ \A k \in 1..(i - 1) : ~SeparatorAt(text, k)
         IN <<SubSeq(text, 1, i - 1)>>
            \o split(SubSeq(text, i + Len(CONFIG_ID_SEPARATOR), Len(text)))
    ELSE <<text>>

\* raise ValueError(...)
ValueError == [raises |-> "ValueError"]

\* a parse that takes the first three parts of a longer handle
parse_first_three(config_id) ==
    IF Len(split(config_id)) < 3 THEN ValueError
    ELSE [venue_slug |-> split(config_id)[1], date |-> split(config_id)[2],
          time_text |-> split(config_id)[3]]

\* parse_config_id
parse_config_id(config_id) ==
    IF Len(split(config_id)) # 3 THEN ValueError
    ELSE [venue_slug |-> split(config_id)[1], date |-> split(config_id)[2],
          time_text |-> split(config_id)[3]]

\* make_config_id: CONFIG_ID_SEPARATOR.join([venue_slug, date, time_text])
make_config_id(venue_slug, date, time_text) ==
    venue_slug \o CONFIG_ID_SEPARATOR \o date \o CONFIG_ID_SEPARATOR \o time_text

\* either the three components of a make_config_id call or the text of a
\* parse_config_id call
InitConfigId ==
    /\ Init!1 /\ Init!2 /\ Init!3 /\ Init!4 /\ Init!5 /\ Init!6 /\ Init!7
    /\ Init!8 /\ Init!9 /\ Init!11 /\ Init!12
    /\ \/ \E v, d, t \in SeqsUpTo(Chars, MaxPartLen) :
             ret = [NoRet EXCEPT !.call = [venue_slug |-> v, date |-> d, time_text |-> t]]
       \/ \E c \in SeqsUpTo(Chars, MaxIdLen) :
             ret = [NoRet EXCEPT !.call = [config_id |-> c]]

MakeConfigId ==
    /\ "venue_slug" \in DOMAIN ret.call
    /\ Apply("make_config_id",
             make_config_id(ret.call.venue_slug, ret.call.date, ret.call.time_text))

\* the handle just made is parsed back
ParseMade ==
    /\ ret.outcome = "make_config_id"
    /\ ret' = [ret EXCEPT !.outcome = "round_trip", !.value = parse_config_id(ret.value)]
    /\ UNCHANGED <<jobs, reservations, now, workerVars, opVars>>

ParseConfigId ==
    /\ "config_id" \in DOMAIN ret.call
    /\ Apply("parse_config_id", parse_config_id(ret.call.config_id))

NextConfigId == MakeConfigId \/ ParseMade \/ ParseConfigId

SpecConfigId == InitConfigId /\ [][NextConfigId]_vars

Contains(text, sep) ==
    \E i \in 1..Len(text) : i + Len(sep) - 1 <= Len(text) /\ SubSeq(text, i, i + Len(sep) - 1) = sep

\* C28: for components none of which contains '|||', parsing the handle made
\* of them gives back exactly the three components.
C28_RoundTrip ==
    LET c == ret.call IN
    (ret.outcome = "round_trip"
       /\ ~Contains(c.venue_slug, CONFIG_ID_SEPARATOR)
       /\ ~Contains(c.date, CONFIG_ID_SEPARATOR)
       /\ ~Contains(c.time_text, CONFIG_ID_SEPARATOR))
      => ret.value = [venue_slug |-> c.venue_slug, date |-> c.date,
                      time_text |-> c.time_text]

\* C29: parse_config_id raises ValueError for every text that does not split
\* on '|||' into exactly three parts, and for a text that does it returns
\* those three parts as they stand: joined again they give the text.
C29_ParseRejectsNonTriples ==
    LET c == ret.call.config_id
        parts == split(c)
    IN ret.outcome = "parse_config_id"
         => IF Len(parts) = 3
            THEN /\ ret.value = [venue_slug |-> parts[1], date |-> parts[2],
                                 time_text |-> parts[3]]
                 /\ make_config_id(ret.value.venue_slug, ret.value.date,
                                   ret.value.time_text) = c
            ELSE ret.value = ValueError

\* a text of four parts has been rejected
C29_Witness ==
    /\ ret.outcome = "parse_config_id"
    /\ Len(split(ret.call.config_id)) = 4
    /\ ret.value = ValueError

\* ------------------------------------------------- update_sniper_job

\* the columns of a sniper_jobs row a patch of the runs may name, and the
\* values it may give them
PatchValues ==
    [status |-> {"active"},
     auto_resolve_conflicts |-> {TRUE, FALSE},
     reservation_id |-> {1},
     updated_at |-> {IsoText(0)}]

\* the dicts naming column f or not
PatchOf(f) == {<<>>} \cup {[x \in {f} |-> v] : v \in PatchValues[f]}

\* the update dicts: every choice of columns, each with one of its values
Patches ==
    {s @@ a @@ r @@ u : s \in PatchOf("status"), a \in PatchOf("auto_resolve_conflicts"),
                        r \in PatchOf("reservation_id"), u \in PatchOf("updated_at")}

\* the value bound to column f: updated_at is overwritten with _now_est(), a
\* bool auto_resolve_conflicts becomes 1 or 0
column_value(f, updates, t) ==
    IF f = "updated_at" THEN NowText(t)
    ELSE IF f = "auto_resolve_conflicts" THEN (IF updates[f] THEN 1 ELSE 0)
    ELSE updates[f]

\* _deserialize_sniper_job: auto_resolve_conflicts read back with bool()
deserialize_sniper_job(row) ==
    [row EXCEPT !.auto_resolve_conflicts = (row.auto_resolve_conflicts # 0)]

\* an update that does not refresh updated_at
update_without_refresh(id, updates, t) ==
    IF id \in JobIds /\ DOMAIN updates # {}
    THEN [jobs EXCEPT ![id] =
            [f \in DOMAIN jobs[id] |->
                IF f \in DOMAIN updates /\ f # "updated_at"
                THEN column_value(f, updates, t) ELSE jobs[id][f]]]
    ELSE jobs

\* update_sniper_job, the table afterwards: UPDATE sniper_jobs SET <the
\* patched columns and updated_at> WHERE id = ?
update_sniper_job(id, updates, t) ==
    IF id \in JobIds /\ DOMAIN updates # {}
    THEN [jobs EXCEPT ![id] =
            [f \in DOMAIN jobs[id] |->
                IF f \in DOMAIN updates \/ f = "updated_at"
                THEN column_value(f, updates, t) ELSE jobs[id][f]]]
    ELSE jobs

\* update_sniper_job, the value returned: False for an empty dict, else
\* cursor.rowcount > 0
update_sniper_job_returns(id, updates) == DOMAIN updates # {} /\ id \in JobIds

\* a stored row as add_sniper_job writes it, columns as SQLite holds them
StoredRow ==
    [status |-> "pending", auto_resolve_conflicts |-> 1, reservation_id |-> NULL,
     updated_at |-> IsoText(0)]

InitUpdate ==
    /\ Init!2 /\ Init!3 /\ Init!4 /\ Init!5 /\ Init!6 /\ Init!7
    /\ Init!8 /\ Init!9 /\ Init!10 /\ Init!11 /\ Init!12
    /\ jobs \in SeqsUpTo({StoredRow}, MaxRows)

\* a call update_sniper_job(job_id, updates), with a known or unknown id
UpdateSniperJob ==
    \E id \in 1..(MaxRows + 1), updates \in Patches :
       /\ jobs' = update_sniper_job(id, updates, now)
       /\ ret' = [NoRet EXCEPT !.outcome = "update_sniper_job",
                               !.call = [job_id |-> id, updates |-> updates],
                               !.value = update_sniper_job_returns(id, updates)]
       /\ UNCHANGED <<reservations, now, workerVars, opVars>>

NextUpdate == UpdateSniperJob \/ Tick

SpecUpdate == InitUpdate /\ [][NextUpdate]_vars

\* C30: update_sniper_job returns false and leaves every job as it was when
\* the patch is empty or the id unknown; otherwise it returns true, the job
\* read back has the patched values and updated_at set to the time of the
\* call, its other fields are unchanged, and so is every other job.
C30_UpdateFrame ==
    [][ret'.outcome = "update_sniper_job"
         => LET id == ret'.call.job_id
                updates == ret'.call.updates
            IN IF DOMAIN updates = {} \/ id \notin JobIds
               THEN ret'.value = FALSE /\ jobs' = jobs
               ELSE /\ ret'.value = TRUE
                    /\ Len(jobs') = Len(jobs)
                    /\ \A k \in JobIds : k # id => jobs'[k] = jobs[k]
                    /\ jobs'[id].updated_at = NowText(now)
                    /\ \A f \in DOMAIN jobs[id] \ {"updated_at"} :
                          IF f \in DOMAIN updates
                          THEN deserialize_sniper_job(jobs'[id])[f] = updates[f]
                          ELSE jobs'[id][f] = jobs[id][f]]_vars

\* a patch of two fields has been applied to the second of two jobs at a
\* later time than the job's creation
C30_Witness ==
    /\ ret.outcome = "update_sniper_job"
    /\ ret.value = TRUE
    /\ ret.call.job_id = 2
    /\ DOMAIN ret.call.updates = {"status", "auto_resolve_conflicts"}
    /\ Len(jobs) = 2
    /\ jobs[2].status = "active"
    /\ jobs[2].updated_at = NowText(1)
    /\ jobs[1].updated_at = IsoText(0)

\* ----------------------------------------------- increment_poll_count

MaxCalls == 2   \* increment_poll_count calls one caller makes

\* the one job of the runs, with the updated_at column
CountedRow == JobRow("active", IsoText(0), 0) @@ [updated_at |-> IsoText(0)]

\* ..., updated_at = ? of the UPDATE
touch(table, id, t) ==
    IF id \in 1..Len(table) THEN [table EXCEPT ![id].updated_at = NowText(t)] ELSE table

\* callers that each make their calls for one id, that of the job or one
\* that does not exist; pc counts the calls a caller has made
InitIncrement ==
    /\ Init!2 /\ Init!3 /\ Init!10 /\ Init!11 /\ Init!12
    /\ jobs = <<CountedRow>>
    /\ pc = [w \in ClaimCallers |-> 0]
    /\ mode = [w \in ClaimCallers |-> "none"]
    /\ job_id \in [ClaimCallers -> 1..2]
    /\ shutdown = [w \in ClaimCallers |-> FALSE]
    /\ result = [w \in ClaimCallers |-> NoResult]
    /\ res_id = [w \in ClaimCallers |-> NULL]

\* one increment_poll_count(job_id) call: a single UPDATE statement
IncrementPollCount(w) ==
    /\ pc[w] < MaxCalls
    /\ jobs' = touch(increment_poll_count(job_id[w]), job_id[w], now)
    /\ pc' = [pc EXCEPT ![w] = @ + 1]
    /\ ret' = [NoRet EXCEPT !.worker = w, !.outcome = "increment_poll_count",
                            !.job = job_id[w], !.value = (job_id[w] \in JobIds)]
    /\ UNCHANGED <<reservations, now, mode, job_id, shutdown, result, res_id, opVars>>

NextIncrement ==
    \/ \E w \in ClaimCallers : IncrementPollCount(w)
    \/ Tick

SpecIncrement == InitIncrement /\ [][NextIncrement]_vars

\* calls made so far for job j by the callers in S
RECURSIVE CallsFor(_, _)
CallsFor(j, S) ==
    IF S = {} THEN 0
    ELSE LET w == CHOOSE w \in S : TRUE
         IN (IF job_id[w] = j THEN pc[w] ELSE 0) + CallsFor(j, S \ {w})

\* C31: whatever the interleaving of the callers, the job's poll_count is the
\* number of increment_poll_count calls made for it, its other fields are
\* as they were (updated_at apart), and a call for an unknown id returns
\* false and changes no job.
C31_IncrementAtomic ==
    /\ Len(jobs) = 1
    /\ jobs[1].poll_count = CallsFor(1, ClaimCallers)
    /\ [jobs[1] EXCEPT !.poll_count = 0, !.updated_at = IsoText(0)] = CountedRow
    /\ ret.outcome = "increment_poll_count"
          => /\ ret.value = (ret.job = 1)
             /\ ret.job # 1 => jobs[1].poll_count = CallsFor(1, ClaimCallers \ {ret.worker})

\* two callers have each made their calls for the job, a third has called
\* for an id that does not exist
C31_Witness ==
    /\ jobs[1].poll_count = 2 * MaxCalls
    /\ \E w \in ClaimCallers : job_id[w] = 2 /\ pc[w] > 0
    /\ Cardinality({w \in ClaimCallers : job_id[w] = 1 /\ pc[w] = MaxCalls}) = 2

\* ------------------------------------- the window and the slot picked

\* windows the pick of a call is compared under
ProbeWindows == {0, 15, 30, 60, 120, 1439}

DistMinutes == {0, 15, 30, 59}

\* the time texts that parse, with those minutes
ClockTexts == {TimeText(h, m, p) : h \in 1..12, m \in DistMinutes, p \in {"AM", "PM"}}

\* two time texts, of a slot and of a preferred time
InitDistance ==
    /\ Init!1 /\ Init!2 /\ Init!3 /\ Init!4 /\ Init!5 /\ Init!6 /\ Init!7
    /\ Init!8 /\ Init!9 /\ Init!11 /\ Init!12
    /\ \E a, b \in ClockTexts : ret = [NoRet EXCEPT !.call = [t1 |-> a, t2 |-> b]]

\* _time_distance_minutes(slot_time, p) on the two parsed times
TimeDistance ==
    Apply("time_distance_minutes",
          time_distance_minutes(parse_time(ret.call.t1)[1], parse_time(ret.call.t2)[1]))

NextDistance == TimeDistance

SpecDistance == InitDistance /\ [][NextDistance]_vars

\* minutes since midnight of a time text that parses
MinutesOfDay(text) == parse_time(text)[1].hour * 60 + parse_time(text)[1].minute

\* C40: the distance of two times is the larger of their minutes since
\* midnight less the smaller: the same in both orders, zero exactly when hour
\* and minute agree, between 0 and 1439, and measured within the day, never
\* round midnight: 11:30 PM and 12:15 AM are 1395 apart.
C40_PlainAbsoluteDifference ==
    ret.outcome = "time_distance_minutes"
       => LET a == MinutesOfDay(ret.call.t1)
              b == MinutesOfDay(ret.call.t2)
          IN /\ ret.value = (IF a >= b THEN a - b ELSE b - a)
             /\ ret.value = time_distance_minutes(parse_time(ret.call.t2)[1],
                                                  parse_time(ret.call.t1)[1])
             /\ (ret.value = 0) <=> (parse_time(ret.call.t1) = parse_time(ret.call.t2))
             /\ ret.value \in 0..1439
             /\ (ret.call.t1 = TimeText(11, 30, "PM") /\ ret.call.t2 = TimeText(12, 15, "AM"))
                   => ret.value = 1395

\* the distance of 11:30 PM and 12:15 AM has been computed
C40_Witness ==
    /\ ret.outcome = "time_distance_minutes"
    /\ ret.call.t1 = TimeText(11, 30, "PM")
    /\ ret.call.t2 = TimeText(12, 15, "AM")
    /\ ret.value = 1395

\* ------------------------------------------------- shutdown and re-claim

\* cron processes come and go: each claims and runs jobs until none is due
\* or it is signalled, while jobs are created and the operator cancels
NextResume ==
    \/ CreateJobFrom(JobArgs, MaxJobs)
    \/ Tick
    \/ \E w \in Workers :
          \/ StartCron(w)
          \/ WorkerStep(w)
          \/ HandleShutdown(w)
    \/ \E j \in 1..MaxJobs : CancelRead(j)
    \/ CancelWrite

SpecResume == Init /\ [][NextResume]_vars

MaxPolls == 3   \* polls of one job, over all its runs

\* a poll that does not book: what the provider does, and whether every slot
\* get_availability returned (if it returned any) is an event-type listing
FailingPolls(job) ==
    {k \in [p : ProviderBehaviours, event_listings : BOOLEAN] :
        /\ ~poll_once(job, k.p).booked
        /\ k.event_listings => k.p.avail \notin {"raise", "empty"}}

\* the part of _poll_once's dict the loop accumulates: result.get('error') and
\* result.get('event_only'); only the return taken when no slot was picked
\* carries the event_only key
poll_result(job, k) ==
    [error |-> poll_once(job, k.p).error,
     event_only |-> (k.p.avail = "no_match" /\ k.event_listings)]

\* error_counts[result['error']] += 1, the Counter kept as its items in
\* insertion order
count_error(counter, e) ==
    IF \E i \in 1..Len(counter) : counter[i].error = e
    THEN [i \in 1..Len(counter) |->
             IF counter[i].error = e THEN [counter[i] EXCEPT !.count = @ + 1]
                                     ELSE counter[i]]
    ELSE Append(counter, [error |-> e, count |-> 1])

\* the Counter after the polls of one run_job invocation
RECURSIVE error_counts(_)
error_counts(results) ==
    IF results = <<>> THEN <<>>
    ELSE LET before == error_counts(SubSeq(results, 1, Len(results) - 1))
             r == results[Len(results)]
         IN IF r.error # "" THEN count_error(before, r.error) ELSE before

\* Counter.most_common(): the items by count, largest first, equal counts in
\* insertion order
RECURSIVE most_common(_)
most_common(counter) ==
    IF counter = <<>> THEN <<>>
    ELSE LET rest == most_common(Tail(counter))
             h == Head(counter)
             n == Cardinality({i \in 1..Len(rest) : rest[i].count > h.count})
         IN SubSeq(rest, 1, n) \o <<h>> \o SubSeq(rest, n + 1, Len(rest))

\* event_only_count after the polls of one run_job invocation
event_only_count(results) ==
    Cardinality({i \in 1..Len(results) : results[i].event_only})

\* the reason of the exhaustion branch: the '## Poll Errors' lines and the
\* note on event-style listings
failure_reason(results) ==
    [errors |-> most_common(error_counts(results)),
     event_only_note |-> event_only_count(results) > 0]

\* the reason run_job composes when the job's polls were polls and the
\* invocation that fails started after the first resumed_at of them:
\* event_only_count and error_counts are locals that start at 0 and empty in
\* every invocation
run_job_reason(job, polls, resumed_at) ==
    failure_reason([i \in 1..(Len(polls) - resumed_at) |->
                       poll_result(job, polls[resumed_at + i])])

\* the polls of a job that fails by exhaustion, and how many of them were made
\* by earlier runs that ended in shutdown
InitReason ==
    /\ Init!1 /\ Init!2 /\ Init!3 /\ Init!4 /\ Init!5 /\ Init!6 /\ Init!7
    /\ Init!8 /\ Init!9 /\ Init!11 /\ Init!12
    /\ \E auto \in BOOLEAN :
         LET job == [auto_resolve_conflicts |-> auto] IN
           \E polls \in SeqsUpTo(FailingPolls(job), MaxPolls) :
             \E resumed_at \in 0..Len(polls) :
                ret = [NoRet EXCEPT !.call = [job |-> job, polls |-> polls,
                                              resumed_at |-> resumed_at]]

FailureReason ==
    Apply("failure_reason",
          run_job_reason(ret.call.job, ret.call.polls, ret.call.resumed_at))

NextReason == FailureReason

SpecReason == InitReason /\ [][NextReason]_vars

\* what each poll of the job handed back
PollErrors == [i \in 1..Len(ret.call.polls) |->
                  poll_once(ret.call.job, ret.call.polls[i].p).error]

\* the polls of the job that reported error text e
PollsWith(e) == {i \in 1..Len(PollErrors) : PollErrors[i] = e}

RECURSIVE SumCounts(_)
SumCounts(items) ==
    IF items = <<>> THEN 0 ELSE Head(items).count + SumCounts(Tail(items))

\* C37: the failure reason lists each distinct error text of the job's polls
\* once, with the number of polls that reported it, most frequent first, and
\* the counts add up to the number of polls of the job that reported an
\* error, those of earlier runs that ended in shutdown included.
C37_ReasonAggregatesErrors ==
    ret.outcome = "failure_reason"
       => LET errors == ret.value.errors IN
            /\ \A i \in 1..Len(PollErrors) :
                  PollErrors[i] # ""
                     => \E k \in 1..Len(errors) :
                           /\ errors[k].error = PollErrors[i]
                           /\ errors[k].count = Cardinality(PollsWith(PollErrors[i]))
            /\ \A k, l \in 1..Len(errors) :
                  /\ k < l => errors[k].count >= errors[l].count
                  /\ k # l => errors[k].error # errors[l].error
            /\ SumCounts(errors) = Cardinality({i \in 1..Len(PollErrors) : PollErrors[i] # ""})

\* the polls of the job whose get_availability returned slots
PollsWithSlots == {i \in 1..Len(ret.call.polls) :
                      ret.call.polls[i].p.avail \notin {"raise", "empty"}}

\* C38: when some poll of the job returned slots and every poll that did
\* returned only event-type listings, the failure reason carries the note on
\* event-style listings, whatever became of the polls' booking attempts.
C38_EventOnlyNote ==
    (/\ ret.outcome = "failure_reason"
     /\ PollsWithSlots # {}
     /\ \A i \in PollsWithSlots : ret.call.polls[i].event_listings)
       => ret.value.event_only_note

====
